---- MODULE Spec2Model ----
(***************************************************************************)
(* The S3 controller of go-aws (package controllers): seven HTTP handlers  *)
(* that each translate one request into one or more calls of the storage   *)
(* backend and write one HTTP response.  The service keeps no state of its *)
(* own; the state is the bucket held by the backend, and, to state         *)
(* properties of a request, the record of the request handled last.        *)
(***************************************************************************)
EXTENDS Integers, Sequences, FiniteSets, TLC

VARIABLES
    bucket,   \* the backend's bucket: key -> size of the object stored, Absent if none
    last,     \* the request handled last: handler, parameters, backend calls, responses
    prev      \* the request before it, kept when it had the same handler and parameters

vars == <<bucket, last, prev>>

(***************************************************************************)
(* Bounds of the model.                                                    *)
(***************************************************************************)
MaxCount == 3     \* "parts" of a presign request ranges over -1..MaxCount
MaxPart == 3      \* part numbers reported to the finalizer: 1..MaxPart
MaxList == 3      \* entries in one backend listing

(***************************************************************************)
(* Strings are sequences of one-character strings, so that suffixes and    *)
(* digits can be inspected.                                                *)
(***************************************************************************)
EmptyStr == <<>>
KeyA == <<"a">>
KeyB == <<"b">>
KeyDir == <<"d", "/">>
Keys == {KeyA, KeyB, KeyDir}

Absent == 0
Sizes == {1, 2}
Buckets == [Keys -> {Absent} \cup Sizes]

\* strings.HasSuffix
HasSuffix(s, suffix) ==
    /\ Len(s) >= Len(suffix)
    /\ SubSeq(s, Len(s) - Len(suffix) + 1, Len(s)) = suffix

(***************************************************************************)
(* Responses.  http.Error writes a plain-text error with a status;         *)
(* json.NewEncoder(w).Encode(ApiResponse{...}) writes the success envelope.*)
(* Each write is appended to the handler's response log.                   *)
(***************************************************************************)
StatusBadRequest == 400
StatusInternalServerError == 500
StatusOK == 200

HttpError(msg, code) == [kind |-> "error", status |-> code, payload |-> msg]
ApiResponse(payload) == [kind |-> "success", status |-> StatusOK, payload |-> payload]

(***************************************************************************)
(* The storage backend, as the handlers use it.  `fault` is a failure the  *)
(* backend reports for reasons outside the request (network, permission,   *)
(* a request it refuses).  A copy needs its source and overwrites its      *)
(* destination, which may be the source itself: the handler sends the same *)
(* CopyObject whatever the two keys are, and whether the backend accepts a *)
(* copy onto itself is the backend's choice (copyFault when it does not).  *)
(* A delete succeeds whether or not the key is there; a head needs the     *)
(* object.                                                                 *)
(***************************************************************************)
CopyObject(b, src, dst, fault) ==
    IF fault \/ b[src] = Absent
    THEN [err |-> TRUE, bucket |-> b]
    ELSE [err |-> FALSE, bucket |-> [b EXCEPT ![dst] = b[src]]]

DeleteObject(b, key, fault) ==
    IF fault
    THEN [err |-> TRUE, bucket |-> b]
    ELSE [err |-> FALSE, bucket |-> [b EXCEPT ![key] = Absent]]

\* Sequences over S without repetition, of length at most n.
InjSeqs(S, n) ==
    {s \in UNION {[1..m -> S] : m \in 0..n} :
        \A i, j \in DOMAIN s : i /= j => s[i] /= s[j]}

\* strings.HasPrefix, as the backend applies the listing's prefix
HasPrefix(s, prefix) ==
    /\ Len(s) >= Len(prefix)
    /\ SubSeq(s, 1, Len(prefix)) = prefix

(***************************************************************************)
(* What ListObjectsV2 may return as Contents: entries of stored objects    *)
(* under the prefix, in the order and selection the backend chooses (keys  *)
(* rolled up into common prefixes and truncated pages leave entries out).  *)
(***************************************************************************)
Listings(b, prefix) ==
    LET stored == {k \in Keys : b[k] /= Absent /\ HasPrefix(k, prefix)}
    IN  {[i \in DOMAIN ks |-> [Key |-> ks[i], Size |-> b[ks[i]]]] :
            ks \in InjSeqs(stored, MaxList)}

(***************************************************************************)
(* List: ListObjectsV2, then the filter on the delimiter and the key's     *)
(* last character, appending the kept entries in the order met.            *)
(***************************************************************************)
\* Keep, with "any other delimiter" narrowed to the empty delimiter.
KeepEmptyDelimiterOnly(delimiter, item) ==
    \/ delimiter = <<"/">> /\ HasSuffix(item.Key, <<"/">>)
    \/ delimiter = EmptyStr /\ ~HasSuffix(item.Key, <<"/">>)

Keep(delimiter, item) ==
    \/ delimiter = <<"/">> /\ HasSuffix(item.Key, <<"/">>)
    \/ delimiter /= <<"/">> /\ ~HasSuffix(item.Key, <<"/">>)

RECURSIVE FilterContents(_, _, _)
FilterContents(contents, delimiter, objects) ==
    IF contents = <<>>
    THEN objects
    ELSE LET item == Head(contents)
         IN  IF Keep(delimiter, item)
             THEN FilterContents(Tail(contents), delimiter,
                                 Append(objects, [Key |-> item.Key, Size |-> item.Size]))
             ELSE FilterContents(Tail(contents), delimiter, objects)

List(b, prefix, delimiter, fault, contents) ==
    LET call == [api |-> "ListObjectsV2", prefix |-> prefix, delimiter |-> delimiter,
                 err |-> fault]
    IN  IF fault
        THEN [calls |-> <<call>>, bucket |-> b, panicked |-> FALSE,
              resp |-> <<HttpError("backend", StatusInternalServerError)>>]
        ELSE [calls |-> <<call>>, bucket |-> b, panicked |-> FALSE,
              resp |-> <<ApiResponse(FilterContents(contents, delimiter, <<>>))>>]

(***************************************************************************)
(* Remove: one DeleteObject, then the envelope.                            *)
(***************************************************************************)
\* Remove, reporting a missing key as an error.
RemoveMissingIsError(b, fileKey, fault) ==
    LET del == DeleteObject(b, fileKey, fault)
        call == [api |-> "DeleteObject", key |-> fileKey, err |-> del.err]
    IN  IF del.err \/ b[fileKey] = Absent
        THEN [calls |-> <<call>>, bucket |-> del.bucket, panicked |-> FALSE,
              resp |-> <<HttpError("backend", StatusInternalServerError)>>]
        ELSE [calls |-> <<call>>, bucket |-> del.bucket, panicked |-> FALSE,
              resp |-> <<ApiResponse(TRUE)>>]

Remove(b, fileKey, fault) ==
    LET del == DeleteObject(b, fileKey, fault)
        call == [api |-> "DeleteObject", key |-> fileKey, err |-> del.err]
    IN  IF del.err
        THEN [calls |-> <<call>>, bucket |-> del.bucket, panicked |-> FALSE,
              resp |-> <<HttpError("backend", StatusInternalServerError)>>]
        ELSE [calls |-> <<call>>, bucket |-> del.bucket, panicked |-> FALSE,
              resp |-> <<ApiResponse(TRUE)>>]

(***************************************************************************)
(* Rename: CopyObject to the new key, then DeleteObject of the old key.    *)
(***************************************************************************)
\* Rename, with the copy's error not checked before the delete.
RenameDeletesAfterFailedCopy(b, oldFileKey, newFileKey, copyFault, deleteFault) ==
    LET cp == CopyObject(b, oldFileKey, newFileKey, copyFault)
        cpCall == [api |-> "CopyObject", key |-> newFileKey, src |-> oldFileKey,
                   err |-> cp.err]
        del == DeleteObject(cp.bucket, oldFileKey, deleteFault)
        delCall == [api |-> "DeleteObject", key |-> oldFileKey, err |-> del.err]
    IN  IF cp.err \/ del.err
        THEN [calls |-> <<cpCall, delCall>>, bucket |-> del.bucket, panicked |-> FALSE,
              resp |-> <<HttpError("backend", StatusInternalServerError)>>]
        ELSE [calls |-> <<cpCall, delCall>>, bucket |-> del.bucket, panicked |-> FALSE,
              resp |-> <<ApiResponse(TRUE)>>]

Rename(b, oldFileKey, newFileKey, copyFault, deleteFault) ==
    LET cp == CopyObject(b, oldFileKey, newFileKey, copyFault)
        cpCall == [api |-> "CopyObject", key |-> newFileKey, src |-> oldFileKey,
                   err |-> cp.err]
    IN  IF cp.err
        THEN [calls |-> <<cpCall>>, bucket |-> cp.bucket, panicked |-> FALSE,
              resp |-> <<HttpError("backend", StatusInternalServerError)>>]
        ELSE LET del == DeleteObject(cp.bucket, oldFileKey, deleteFault)
                 delCall == [api |-> "DeleteObject", key |-> oldFileKey, err |-> del.err]
             IN  IF del.err
                 THEN [calls |-> <<cpCall, delCall>>, bucket |-> del.bucket,
                       panicked |-> FALSE,
                       resp |-> <<HttpError("backend", StatusInternalServerError)>>]
                 ELSE [calls |-> <<cpCall, delCall>>, bucket |-> del.bucket,
                       panicked |-> FALSE,
                       resp |-> <<ApiResponse(TRUE)>>]

(***************************************************************************)
(* Request bodies.  json.NewDecoder(r.Body).Decode(&requestBody) returns   *)
(* an error for a body that is not decodable and leaves in requestBody the *)
(* fields it had set before the error (none for a syntax error: the zero   *)
(* value; some for a value of the wrong type in a later field).            *)
(***************************************************************************)
Decode(body) == [err |-> ~body.wellFormed, requestBody |-> body.fields]

UploadIdA == <<"u", "1">>
UploadIdB == <<"u", "2">>
UploadIds == {UploadIdA, UploadIdB}

(***************************************************************************)
(* The backend's multipart operations.  An empty key or upload id is       *)
(* refused; a completion needs a non-empty manifest whose part numbers are *)
(* present and strictly ascending, and stores the object.                  *)
(***************************************************************************)
CreateMultipartUpload(key, fault) == fault \/ key = EmptyStr

ManifestAccepted(parts) ==
    /\ parts /= <<>>
    /\ \A i \in DOMAIN parts : parts[i].PartNumber /= <<>>
    /\ \A i \in DOMAIN parts : i > 1 => parts[i - 1].PartNumber[1] < parts[i].PartNumber[1]

CompleteMultipartUploadBackend(b, key, uploadId, parts, fault, size) ==
    IF fault \/ key = EmptyStr \/ uploadId = EmptyStr \/ ~ManifestAccepted(parts)
    THEN [err |-> TRUE, bucket |-> b]
    ELSE [err |-> FALSE, bucket |-> [b EXCEPT ![key] = size]]

HeadObject(b, key, fault) ==
    IF fault \/ b[key] = Absent
    THEN [err |-> TRUE, ContentLength |-> 0]
    ELSE [err |-> FALSE, ContentLength |-> b[key]]

(***************************************************************************)
(* InitiateMultipartUpload: the decode error is not looked at; one         *)
(* CreateMultipartUpload for requestBody.FileName.                         *)
(***************************************************************************)
InitiateMultipartUpload(b, body, fault, uploadId) ==
    LET requestBody == Decode(body).requestBody
        err == CreateMultipartUpload(requestBody.FileName, fault)
        call == [api |-> "CreateMultipartUpload", key |-> requestBody.FileName, err |-> err]
    IN  IF err
        THEN [calls |-> <<call>>, bucket |-> b, panicked |-> FALSE,
              resp |-> <<HttpError("backend", StatusInternalServerError)>>]
        ELSE [calls |-> <<call>>, bucket |-> b, panicked |-> FALSE,
              resp |-> <<ApiResponse([id |-> uploadId, key |-> requestBody.FileName])>>]

(***************************************************************************)
(* GeneratePresignedUrl: make([]SignedUrl, Parts), then for i = 1..Parts   *)
(* one PresignUploadPart for part int32(i), stored at urls[i-1]; the first *)
(* presign error ends the request.  make panics on a negative length, and  *)
(* a handler that panics writes nothing.                                   *)
(***************************************************************************)
MaxInt32 == 2147483647
MinInt32 == -MaxInt32 - 1
Int32(i) == IF i > MaxInt32 THEN MinInt32 + (i - MaxInt32 - 1) ELSE i

PartUrlMinutes == 15
PresignUploadPart(key, uploadId, partNumber) ==
    [method |-> "PUT", key |-> key, uploadId |-> uploadId, partNumber |-> partNumber,
     expiresSeconds |-> PartUrlMinutes * 60]

ZeroSignedUrl == [SignedUrl |-> <<>>, PartNumber |-> 0]

\* The loop's part number, one too low.
PartNumberOffByOne(i) == Int32(i - 1)

PartNumberOf(i) == Int32(i)

RECURSIVE PresignLoop(_, _, _, _, _, _)
PresignLoop(b, requestBody, i, urls, calls, failAt) ==
    IF i > requestBody.Parts
    THEN [calls |-> calls, bucket |-> b, panicked |-> FALSE,
          resp |-> <<ApiResponse(urls)>>]
    ELSE LET partNumber == PartNumberOf(i)
             err == (failAt = i)
             call == [api |-> "PresignUploadPart", key |-> requestBody.FileKey,
                      uploadId |-> requestBody.FileId, partNumber |-> partNumber,
                      err |-> err]
         IN  IF err
             THEN [calls |-> Append(calls, call), bucket |-> b, panicked |-> FALSE,
                   resp |-> <<HttpError("Failed to generate presigned URL",
                                        StatusInternalServerError)>>]
             ELSE PresignLoop(b, requestBody, i + 1,
                              [urls EXCEPT ![i] =
                                  [SignedUrl |-> PresignUploadPart(requestBody.FileKey,
                                                                   requestBody.FileId,
                                                                   partNumber),
                                   PartNumber |-> partNumber]],
                              Append(calls, call), failAt)

GeneratePresignedUrl(b, body, failAt) ==
    LET dec == Decode(body)
        requestBody == dec.requestBody
    IN  IF dec.err
        THEN [calls |-> <<>>, bucket |-> b, panicked |-> FALSE,
              resp |-> <<HttpError("Invalid request payload", StatusBadRequest)>>]
        ELSE IF requestBody.Parts < 0
        THEN [calls |-> <<>>, bucket |-> b, panicked |-> TRUE, resp |-> <<>>]
        ELSE PresignLoop(b, requestBody, 1,
                         [i \in 1..requestBody.Parts |-> ZeroSignedUrl], <<>>, failAt)

(***************************************************************************)
(* CompleteMultipartUpload: the decode error is not looked at; the parts   *)
(* are sorted by *PartNumber (sort.Slice: an insertion sort for the short  *)
(* slices of the model), copied into the manifest and submitted; then one  *)
(* HeadObject for the size.  PartNumber is a pointer: <<>> is nil, <<n>>   *)
(* points to n.  Comparing through a nil pointer panics.                   *)
(***************************************************************************)
Less(p, q) == p.PartNumber[1] < q.PartNumber[1]

Swap(parts, i, j) == [parts EXCEPT ![i] = parts[j], ![j] = parts[i]]

RECURSIVE InsertPart(_, _)
InsertPart(parts, j) ==
    IF j > 1 /\ Less(parts[j], parts[j - 1])
    THEN InsertPart(Swap(parts, j, j - 1), j - 1)
    ELSE parts

RECURSIVE InsertionSort(_, _)
InsertionSort(parts, i) ==
    IF i > Len(parts) THEN parts ELSE InsertionSort(InsertPart(parts, i), i + 1)

\* The sort left out: the parts as the client sent them.
SortSkipped(parts) == parts

SortSlice(parts) == InsertionSort(parts, 2)

SortPanics(parts) ==
    Len(parts) >= 2 /\ \E i \in DOMAIN parts : parts[i].PartNumber = <<>>

CompletedParts(parts) ==
    [i \in DOMAIN parts |-> [ETag |-> parts[i].ETag, PartNumber |-> parts[i].PartNumber]]

\* The finalizer, reporting success without the size when the lookup fails.
CompleteSizeBestEffort(b, body, completeFault, headFault, size) ==
    LET requestBody == Decode(body).requestBody
        completedParts == CompletedParts(SortSlice(requestBody.Parts))
        done == CompleteMultipartUploadBackend(b, requestBody.FileKey, requestBody.FileId,
                                               completedParts, completeFault, size)
        doneCall == [api |-> "CompleteMultipartUpload", key |-> requestBody.FileKey,
                     uploadId |-> requestBody.FileId, parts |-> completedParts,
                     err |-> done.err]
        head == HeadObject(done.bucket, requestBody.FileKey, headFault)
        headCall == [api |-> "HeadObject", key |-> requestBody.FileKey, err |-> head.err]
    IN  IF SortPanics(requestBody.Parts)
        THEN [calls |-> <<>>, bucket |-> b, panicked |-> TRUE, resp |-> <<>>]
        ELSE IF done.err
        THEN [calls |-> <<doneCall>>, bucket |-> done.bucket, panicked |-> FALSE,
              resp |-> <<HttpError("backend", StatusInternalServerError)>>]
        ELSE [calls |-> <<doneCall, headCall>>, bucket |-> done.bucket,
              panicked |-> FALSE,
              resp |-> <<ApiResponse([key |-> requestBody.FileKey,
                                      size |-> head.ContentLength])>>]

CompleteMultipartUpload(b, body, completeFault, headFault, size) ==
    LET requestBody == Decode(body).requestBody
    IN  IF SortPanics(requestBody.Parts)
        THEN [calls |-> <<>>, bucket |-> b, panicked |-> TRUE, resp |-> <<>>]
        ELSE
        LET completedParts == CompletedParts(SortSlice(requestBody.Parts))
            done == CompleteMultipartUploadBackend(b, requestBody.FileKey,
                                                   requestBody.FileId, completedParts,
                                                   completeFault, size)
            doneCall == [api |-> "CompleteMultipartUpload", key |-> requestBody.FileKey,
                         uploadId |-> requestBody.FileId, parts |-> completedParts,
                         err |-> done.err]
        IN  IF done.err
            THEN [calls |-> <<doneCall>>, bucket |-> done.bucket, panicked |-> FALSE,
                  resp |-> <<HttpError("backend", StatusInternalServerError)>>]
            ELSE
            LET head == HeadObject(done.bucket, requestBody.FileKey, headFault)
                headCall == [api |-> "HeadObject", key |-> requestBody.FileKey,
                             err |-> head.err]
            IN  IF head.err
                THEN [calls |-> <<doneCall, headCall>>, bucket |-> done.bucket,
                      panicked |-> FALSE,
                      resp |-> <<HttpError("backend", StatusInternalServerError)>>]
                ELSE [calls |-> <<doneCall, headCall>>, bucket |-> done.bucket,
                      panicked |-> FALSE,
                      resp |-> <<ApiResponse([key |-> requestBody.FileKey,
                                              size |-> head.ContentLength])>>]

(***************************************************************************)
(* 64-bit integers.  A value is a sequence of 16-bit limbs, least          *)
(* significant first; an int64 has four, in two's complement.  Products    *)
(* keep the width of their operand: MulSmall on four limbs is Go's         *)
(* wrapping multiplication, on more limbs it is exact while the value fits.*)
(***************************************************************************)
LimbBase == 65536
SignLimb == 32768

Zeros(n) == [i \in 1..n |-> 0]
Pad(x, n) == x \o Zeros(n - Len(x))

RECURSIVE MulAdd(_, _, _)
MulAdd(x, m, carry) ==
    IF x = <<>>
    THEN <<>>
    ELSE LET t == Head(x) * m + carry
         IN  <<t % LimbBase>> \o MulAdd(Tail(x), m, t \div LimbBase)

MulSmall(x, m) == MulAdd(x, m, 0)

IsZero(x) == \A i \in DOMAIN x : x[i] = 0

(***************************************************************************)
(* strconv.Atoi on a 64-bit build: an optional sign, then decimal digits   *)
(* only and at least one; a value outside int64 is a range error.          *)
(***************************************************************************)
DigitChars == <<"0", "1", "2", "3", "4", "5", "6", "7", "8", "9">>
IsDigit(c) == \E d \in DOMAIN DigitChars : DigitChars[d] = c
DigitValue(c) == (CHOOSE d \in DOMAIN DigitChars : DigitChars[d] = c) - 1

RECURSIVE ParseDigits(_, _)
ParseDigits(digits, acc) ==
    IF digits = <<>>
    THEN acc
    ELSE ParseDigits(Tail(digits), MulAdd(acc, 10, DigitValue(Head(digits))))

AtoiError == [err |-> TRUE, neg |-> FALSE, mag |-> Zeros(4)]

Atoi(str) ==
    IF str = <<>>
    THEN AtoiError
    ELSE LET neg == (str[1] = "-")
             digits == IF str[1] \in {"+", "-"} THEN Tail(str) ELSE str
         IN  IF digits = <<>> \/ \E i \in DOMAIN digits : ~IsDigit(digits[i])
             THEN AtoiError
             ELSE LET wide == ParseDigits(digits, Zeros(5))
                      mag == SubSeq(wide, 1, 4)
                      inRange == /\ wide[5] = 0
                                 /\ \/ mag[4] < SignLimb
                                    \/ neg /\ mag = <<0, 0, 0, SignLimb>>
                  IN  IF inRange
                      THEN [err |-> FALSE, neg |-> neg, mag |-> mag]
                      ELSE AtoiError

\* expiresIn <= 0
NotPositive(n) == n.neg \/ IsZero(n.mag)

\* time.Duration(expiresIn) * time.Second: an int64 product, in nanoseconds.
\* time.Second is 1000 * 1000 * 1000.
DurationSeconds(mag) == MulSmall(MulSmall(MulSmall(mag, 1000), 1000), 1000)

(***************************************************************************)
(* Share: fileKey must not be empty, expiresIn must parse and be positive; *)
(* then one PresignGetObject with the attachment disposition and           *)
(* opt.Expires set to the duration.                                        *)
(***************************************************************************)
Share(b, fileKey, expiresInStr, fault) ==
    IF fileKey = EmptyStr
    THEN [calls |-> <<>>, bucket |-> b, panicked |-> FALSE,
          resp |-> <<HttpError("fileKey is required", StatusBadRequest)>>]
    ELSE
    LET expiresIn == Atoi(expiresInStr)
    IN  IF expiresIn.err \/ NotPositive(expiresIn)
        THEN [calls |-> <<>>, bucket |-> b, panicked |-> FALSE,
              resp |-> <<HttpError("Invalid or missing expiresIn parameter",
                                   StatusBadRequest)>>]
        ELSE
        LET call == [api |-> "PresignGetObject", key |-> fileKey,
                     disposition |-> "attachment",
                     expires |-> DurationSeconds(expiresIn.mag), err |-> fault]
        IN  IF fault
            THEN [calls |-> <<call>>, bucket |-> b, panicked |-> FALSE,
                  resp |-> <<HttpError("Failed to generate presigned URL",
                                       StatusInternalServerError)>>]
            ELSE [calls |-> <<call>>, bucket |-> b, panicked |-> FALSE,
                  resp |-> <<ApiResponse(call)>>]

(***************************************************************************)
(* The record of a handled request.                                        *)
(***************************************************************************)
NoRequest ==
    [op |-> "none", req |-> <<>>, env |-> <<>>, calls |-> <<>>, resp |-> <<>>,
     panicked |-> FALSE, before |-> [k \in Keys |-> Absent]]

Record(op, req, env, out) ==
    [op |-> op, req |-> req, env |-> env, calls |-> out.calls, resp |-> out.resp,
     panicked |-> out.panicked, before |-> bucket]

\* What is kept of the request before the last: its handler, parameters,
\* backend failures and responses, when the last request repeats it.
Previous(op, req) ==
    IF last.op = op /\ last.req = req
    THEN [op |-> last.op, req |-> last.req, env |-> last.env, resp |-> last.resp]
    ELSE [op |-> "none", req |-> <<>>, env |-> <<>>, resp |-> <<>>]

Init ==
    /\ bucket \in Buckets
    /\ last = [NoRequest EXCEPT !.before = bucket]
    /\ prev = [op |-> "none", req |-> <<>>, env |-> <<>>, resp |-> <<>>]

HandleRemove(keys) ==
    \E fileKey \in keys, fault \in BOOLEAN :
        LET out == Remove(bucket, fileKey, fault)
        IN  /\ bucket' = out.bucket
            /\ last' = Record("Remove", [fileKey |-> fileKey], [fault |-> fault], out)
            /\ prev' = Previous("Remove", [fileKey |-> fileKey])

\* The backend's failures of one Rename: the delete is reached only after a
\* copy that did not fail.
RenameFaults ==
    {[copyFault |-> TRUE, deleteFault |-> FALSE],
     [copyFault |-> FALSE, deleteFault |-> TRUE],
     [copyFault |-> FALSE, deleteFault |-> FALSE]}

HandleRename(keys) ==
    \E oldFileKey \in keys, newFileKey \in keys, env \in RenameFaults :
        LET out == Rename(bucket, oldFileKey, newFileKey, env.copyFault, env.deleteFault)
        IN  /\ bucket' = out.bucket
            /\ last' = Record("Rename", [oldFileKey |-> oldFileKey, newFileKey |-> newFileKey], env, out)
            /\ prev' = Previous("Rename", [oldFileKey |-> oldFileKey, newFileKey |-> newFileKey])

Prefixes == {EmptyStr, <<"d">>}
Delimiters == {<<"/">>, EmptyStr, <<",">>}
FewDelimiters == {<<"/">>, EmptyStr}

ListOutcomes(prefix) ==
    {[fault |-> TRUE, contents |-> <<>>]}
    \cup {[fault |-> FALSE, contents |-> c] : c \in Listings(bucket, prefix)}

HandleList(prefixes, delimiters) ==
    \E prefix \in prefixes, delimiter \in delimiters :
        \E env \in ListOutcomes(prefix) :
        LET out == List(bucket, prefix, delimiter, env.fault, env.contents)
        IN  /\ bucket' = out.bucket
            /\ last' = Record("List", [prefix |-> prefix, delimiter |-> delimiter], env, out)
            /\ prev' = Previous("List", [prefix |-> prefix, delimiter |-> delimiter])

NextDirectory ==
    \/ HandleList(Prefixes, Delimiters)
    \/ HandleRemove(Keys)
    \/ HandleRename(Keys)
SpecDirectory == Init /\ [][NextDirectory]_vars

(***************************************************************************)
(* Requests of the upload handlers.                                        *)
(***************************************************************************)
Part(n) == [ETag |-> <<"e", n>>, PartNumber |-> <<n>>]
NilPart == [ETag |-> <<"e", 0>>, PartNumber |-> <<>>]

\* A body that is not decodable leaves the zero value, or the fields set
\* before a value of the wrong type.
InitiateBodies ==
    {[wellFormed |-> TRUE, fields |-> [FileName |-> k]] : k \in Keys}
    \cup {[wellFormed |-> FALSE, fields |-> [FileName |-> k]] : k \in {EmptyStr, KeyA}}

InitiateOutcomes ==
    {[fault |-> TRUE, uploadId |-> EmptyStr]}
    \cup {[fault |-> FALSE, uploadId |-> u] : u \in UploadIds}

HandleInitiateMultipartUpload ==
    \E body \in InitiateBodies, env \in InitiateOutcomes :
        LET out == InitiateMultipartUpload(bucket, body, env.fault, env.uploadId)
        IN  /\ bucket' = out.bucket
            /\ last' = Record("InitiateMultipartUpload", body, env, out)
            /\ prev' = Previous("InitiateMultipartUpload", body)

PresignBodies(keys, ids, maxCount) ==
    {[wellFormed |-> TRUE, fields |-> [FileKey |-> k, FileId |-> u, Parts |-> n]] :
        k \in keys, u \in ids, n \in -1..maxCount}
    \cup {[wellFormed |-> FALSE,
           fields |-> [FileKey |-> EmptyStr, FileId |-> EmptyStr, Parts |-> 0]]}

HandleGeneratePresignedUrl(bodies) ==
    \E body \in bodies :
        \E failAt \in 0..(IF body.fields.Parts < 0 THEN 0 ELSE body.fields.Parts) :
        LET out == GeneratePresignedUrl(bucket, body, failAt)
        IN  /\ bucket' = out.bucket
            /\ last' = Record("GeneratePresignedUrl", body, [failAt |-> failAt], out)
            /\ prev' = Previous("GeneratePresignedUrl", body)

CompleteBodies(partLists, keys) ==
    {[wellFormed |-> TRUE, fields |-> [FileKey |-> k, FileId |-> UploadIdA, Parts |-> ps]] :
        k \in keys, ps \in partLists}
    \cup {[wellFormed |-> FALSE,
           fields |-> [FileKey |-> EmptyStr, FileId |-> EmptyStr, Parts |-> <<>>]],
          [wellFormed |-> FALSE,
           fields |-> [FileKey |-> KeyA, FileId |-> UploadIdA, Parts |-> <<>>]]}

\* The backend's answers to one finalizer request: the size lookup is reached
\* only after a completion that did not fail.
CompleteOutcomes ==
    {[completeFault |-> TRUE, headFault |-> FALSE, size |-> 1]}
    \cup {[completeFault |-> FALSE, headFault |-> h, size |-> z] :
             h \in BOOLEAN, z \in Sizes}

\* The same without a failing size lookup, for the runs about the manifest.
CompletionOutcomes ==
    {[completeFault |-> f, headFault |-> FALSE, size |-> 1] : f \in BOOLEAN}

HandleCompleteMultipartUpload(partLists, keys, outcomes) ==
    \E body \in CompleteBodies(partLists, keys), env \in outcomes :
        LET out == CompleteMultipartUpload(bucket, body, env.completeFault,
                                           env.headFault, env.size)
        IN  /\ bucket' = out.bucket
            /\ last' = Record("CompleteMultipartUpload", body, env, out)
            /\ prev' = Previous("CompleteMultipartUpload", body)

\* Part lists for the runs where the finalizer is one handler among others.
FewPartLists ==
    {<<>>, <<Part(1)>>, <<Part(2), Part(1)>>, <<NilPart>>, <<Part(1), NilPart>>}

\* Every list of at most MaxPart distinct parts numbered 1..MaxPart, and the
\* lists with a part that carries no number.
AllPartLists ==
    InjSeqs({Part(n) : n \in 1..MaxPart}, MaxPart)
    \cup {<<NilPart>>, <<Part(1), NilPart>>, <<NilPart, Part(1)>>}

NextUpload ==
    \/ HandleInitiateMultipartUpload
    \/ HandleGeneratePresignedUrl(PresignBodies({KeyA, KeyDir}, UploadIds, MaxCount))
    \/ HandleCompleteMultipartUpload(FewPartLists, Keys, CompleteOutcomes)
SpecUpload == Init /\ [][NextUpload]_vars

NextFinalizer == HandleCompleteMultipartUpload(AllPartLists, {KeyA}, CompletionOutcomes)
SpecFinalizer == Init /\ [][NextFinalizer]_vars

(***************************************************************************)
(* Requests of Share: the expiresIn parameter as the query string has it.  *)
(***************************************************************************)
ExpiresInStrings ==
    { EmptyStr,
      <<"1", "x">>,
      <<"-">>,
      <<"0">>,
      <<"-", "5">>,
      <<"6", "0">>,
      <<"+", "7">>,
      <<"9", "2", "2", "3", "3", "7", "2", "0", "3", "6">>,
      <<"9", "2", "2", "3", "3", "7", "2", "0", "3", "7">>,
      <<"9", "2", "2", "3", "3", "7", "2", "0", "3", "6", "8", "5", "4", "7", "7", "5",
        "8", "0", "8">> }

FewExpiresInStrings == {EmptyStr, <<"0">>, <<"6", "0">>}

HandleShare(expiresInStrings) ==
    \E fileKey \in {EmptyStr, KeyA}, expiresInStr \in expiresInStrings,
       fault \in BOOLEAN :
        LET out == Share(bucket, fileKey, expiresInStr, fault)
        IN  /\ bucket' = out.bucket
            /\ last' = Record("Share", [fileKey |-> fileKey, expiresIn |-> expiresInStr], [fault |-> fault], out)
            /\ prev' = Previous("Share", [fileKey |-> fileKey, expiresIn |-> expiresInStr])

NextShare == HandleShare(ExpiresInStrings)
SpecShare == Init /\ [][NextShare]_vars

\* All seven handlers, each on a few requests.
Next ==
    \/ HandleInitiateMultipartUpload
    \/ HandleGeneratePresignedUrl(PresignBodies({KeyA}, {UploadIdA}, 1))
    \/ HandleCompleteMultipartUpload(FewPartLists, {KeyA}, CompleteOutcomes)
    \/ HandleList({EmptyStr}, FewDelimiters)
    \/ HandleRemove(Keys)
    \/ HandleRename({KeyA, KeyDir})
    \/ HandleShare(FewExpiresInStrings)
Spec == Init /\ [][Next]_vars

(***************************************************************************)
(* Properties of the handled request.                                      *)
(***************************************************************************)
IsError(r) == r.kind = "error"
IsSuccess(r) == r.kind = "success"
OneError(rec) == Len(rec.resp) = 1 /\ IsError(rec.resp[1])
OneSuccess(rec) == Len(rec.resp) = 1 /\ IsSuccess(rec.resp[1])

\* C1: Rename. If the copy fails, no delete is attempted, the old object is
\* unchanged and the response is an error; if the copy succeeds and the delete
\* fails, the response is an error and both keys are present afterwards.
C1_RenamePartialFailure ==
    last.op = "Rename" =>
        LET old == last.req.oldFileKey
            new == last.req.newFileKey
            copyFailed == last.calls[1].err
        IN  /\ Len(last.calls) >= 1 /\ last.calls[1].api = "CopyObject"
            /\ copyFailed =>
                    /\ \A i \in DOMAIN last.calls : last.calls[i].api /= "DeleteObject"
                    /\ bucket[old] = last.before[old]
                    /\ OneError(last)
            /\ (~copyFailed /\ Len(last.calls) = 2 /\ last.calls[2].err) =>
                    /\ OneError(last)
                    /\ bucket[old] /= Absent
                    /\ bucket[new] /= Absent
            /\ ~copyFailed => Len(last.calls) = 2 /\ last.calls[2].api = "DeleteObject"

\* A rename between two keys whose copy succeeded and whose delete failed.
C1_Witness ==
    /\ last.op = "Rename"
    /\ last.req.oldFileKey /= last.req.newFileKey
    /\ Len(last.calls) = 2
    /\ ~last.calls[1].err
    /\ last.calls[2].err

EndsWithSlash(key) == key /= <<>> /\ key[Len(key)] = "/"

\* C7: List. With the delimiter "/", the result is exactly the backend's
\* entries whose key ends with "/"; with any other delimiter exactly those
\* whose key does not; in both cases in the backend's order.
C7_ListFilter ==
    (last.op = "List" /\ ~last.env.fault) =>
        LET wantDirs == (last.req.delimiter = <<"/">>)
            Wanted(e) == EndsWithSlash(e.Key) = wantDirs
        IN  /\ OneSuccess(last)
            /\ last.resp[1].payload = SelectSeq(last.env.contents, Wanted)

\* A listing of three entries of which two files are kept, in the backend's
\* order, which is not the alphabetical one.
C7_Witness ==
    /\ last.op = "List"
    /\ ~last.env.fault
    /\ last.req.delimiter /= <<"/">>
    /\ Len(last.env.contents) = 3
    /\ OneSuccess(last)
    /\ Len(last.resp[1].payload) = 2
    /\ last.resp[1].payload[1].Key = KeyB
    /\ last.resp[1].payload[2].Key = KeyA

\* C8: Remove is idempotent. With a backend that reports no failure, two
\* Removes of the same key in a row both succeed, the bucket after the second
\* is the bucket after the first, and no other key has changed.
C8_RemoveIdempotent ==
    /\ last.op = "Remove" =>
            \A k \in Keys \ {last.req.fileKey} : bucket[k] = last.before[k]
    /\ (last.op = "Remove" /\ prev.op = "Remove" /\ ~last.env.fault /\ ~prev.env.fault) =>
            /\ OneSuccess(prev)
            /\ OneSuccess(last)
            /\ bucket = last.before
            /\ bucket[last.req.fileKey] = Absent

\* Two Removes of one key in a row, neither failed: the second finds the key
\* already gone, and another object is still stored.
C8_Witness ==
    /\ last.op = "Remove"
    /\ prev.op = "Remove"
    /\ ~last.env.fault
    /\ ~prev.env.fault
    /\ last.before[last.req.fileKey] = Absent
    /\ \E k \in Keys \ {last.req.fileKey} : bucket[k] /= Absent

\* C10: after a Rename that reports success, the content the old key held
\* before the call is at the new key, for every pair of keys.
C10_RenameKeepsContent ==
    (last.op = "Rename" /\ OneSuccess(last)) =>
        /\ last.before[last.req.oldFileKey] /= Absent
        /\ bucket[last.req.newFileKey] = last.before[last.req.oldFileKey]

Count(seq, x) == Cardinality({i \in DOMAIN seq : seq[i] = x})

\* C2: the finalizer's manifest. Whatever the order of the reported parts, the
\* manifest submitted to the backend's completion holds exactly the reported
\* (partNumber, eTag) descriptors and is ascending by partNumber.
C2_ManifestSorted ==
    LET parts == last.req.fields.Parts
    IN  (last.op = "CompleteMultipartUpload"
         /\ \A i \in DOMAIN parts : parts[i].PartNumber /= <<>>) =>
            /\ Len(last.calls) >= 1
            /\ last.calls[1].api = "CompleteMultipartUpload"
            /\ LET manifest == last.calls[1].parts
               IN  /\ Len(manifest) = Len(parts)
                   /\ \A i \in DOMAIN parts : Count(manifest, parts[i]) = Count(parts, parts[i])
                   /\ \A i, j \in DOMAIN manifest :
                          i < j => manifest[i].PartNumber[1] <= manifest[j].PartNumber[1]

\* The parts 3, 1, 2 were reported and 1, 2, 3 submitted.
C2_Witness ==
    /\ last.op = "CompleteMultipartUpload"
    /\ last.req.fields.Parts = <<Part(3), Part(1), Part(2)>>
    /\ Len(last.calls) >= 1
    /\ last.calls[1].parts = <<Part(1), Part(2), Part(3)>>

\* C3: the part URL issuer. For partCount >= 1 and no presign failure, the
\* response holds exactly partCount authorizations, numbered 1..partCount in
\* this order, each signed for the request's key and upload id and its own
\* part number.
C3_OneUrlPerPart ==
    (/\ last.op = "GeneratePresignedUrl"
     /\ last.req.wellFormed
     /\ last.req.fields.Parts >= 1
     /\ last.env.failAt = 0) =>
        /\ OneSuccess(last)
        /\ LET urls == last.resp[1].payload
           IN  /\ Len(urls) = last.req.fields.Parts
               /\ \A i \in DOMAIN urls :
                      /\ urls[i].PartNumber = i
                      /\ urls[i].SignedUrl =
                             PresignUploadPart(last.req.fields.FileKey,
                                               last.req.fields.FileId, i)

\* A request for three or more part URLs that was answered.
C3_Witness ==
    /\ last.op = "GeneratePresignedUrl"
    /\ last.req.wellFormed
    /\ last.req.fields.Parts >= 3
    /\ OneSuccess(last)
    /\ Len(last.resp[1].payload) = last.req.fields.Parts

\* C4: every handler writes exactly one response, a success envelope or an
\* error, for every request and every outcome of its backend calls.
C4_ExactlyOneResponse ==
    last.op /= "none" => Len(last.resp) = 1

\* C5: a body that is not decodable is answered 400 before any backend call,
\* by each handler that reads a body.
C5_MalformedBodyIs400 ==
    (/\ last.op \in {"InitiateMultipartUpload", "GeneratePresignedUrl",
                     "CompleteMultipartUpload"}
     /\ ~last.req.wellFormed) =>
        /\ last.calls = <<>>
        /\ OneError(last)
        /\ last.resp[1].status = StatusBadRequest

\* The expiresIn parameter, read as a decimal number.
IsDecimal(str) ==
    LET digits == IF str /= <<>> /\ str[1] \in {"+", "-"} THEN Tail(str) ELSE str
    IN  digits /= <<>> /\ \A i \in DOMAIN digits : IsDigit(digits[i])
IsPositiveDecimal(str) ==
    /\ IsDecimal(str)
    /\ str[1] /= "-"
    /\ \E i \in DOMAIN str : IsDigit(str[i]) /\ str[i] /= "0"
DecimalDigits(str) == IF str[1] \in {"+", "-"} THEN Tail(str) ELSE str

\* expiresIn seconds in nanoseconds, computed without loss.
ExactNanoseconds(str) ==
    LET seconds == ParseDigits(DecimalDigits(str), Zeros(8))
    IN  MulSmall(MulSmall(MulSmall(seconds, 1000), 1000), 1000)

\* C6: Share. An empty fileKey, or an expiresIn that is missing, not a number,
\* zero or negative, is answered 400 with no backend call; the presign call is
\* reached only with a fileKey and a positive expiresIn, and is made with a
\* validity of exactly expiresIn seconds.
C6_ShareValidatesAndExpires ==
    last.op = "Share" =>
        LET fileKey == last.req.fileKey
            str == last.req.expiresIn
        IN  /\ (fileKey = EmptyStr \/ ~IsPositiveDecimal(str)) =>
                    /\ last.calls = <<>>
                    /\ OneError(last)
                    /\ last.resp[1].status = StatusBadRequest
            /\ last.calls /= <<>> =>
                    /\ fileKey /= EmptyStr
                    /\ IsPositiveDecimal(str)
                    /\ Len(last.calls) = 1
                    /\ last.calls[1].expires[4] < SignLimb
                    /\ Pad(last.calls[1].expires, 8) = ExactNanoseconds(str)

\* C9: the finalizer's size lookup. HeadObject is issued only after a
\* completion that succeeded; a completion that succeeded followed by a lookup
\* that failed is answered 500 although the object is stored; the success
\* envelope is written only when both succeeded, and carries the size.
C9_SizeLookupAfterCompletion ==
    last.op = "CompleteMultipartUpload" =>
        LET key == last.req.fields.FileKey
            completed == /\ Len(last.calls) >= 1
                         /\ last.calls[1].api = "CompleteMultipartUpload"
                         /\ ~last.calls[1].err
            looked == \E i \in DOMAIN last.calls : last.calls[i].api = "HeadObject"
        IN  /\ looked => completed /\ Len(last.calls) = 2 /\ last.calls[2].api = "HeadObject"
            /\ completed => looked
            /\ (completed /\ last.calls[2].err) =>
                    /\ OneError(last)
                    /\ last.resp[1].status = StatusInternalServerError
                    /\ bucket[key] /= Absent
            /\ (\E i \in DOMAIN last.resp : IsSuccess(last.resp[i])) =>
                    /\ completed
                    /\ ~last.calls[2].err
                    /\ last.resp[1].payload = [key |-> key, size |-> bucket[key]]

\* A completion that succeeded, on a key that held nothing, followed by a size
\* lookup that failed.
C9_Witness ==
    /\ last.op = "CompleteMultipartUpload"
    /\ Len(last.calls) = 2
    /\ ~last.calls[1].err
    /\ last.calls[2].err
    /\ last.before[last.req.fields.FileKey] = Absent

====
